---- MODULE Spec2Model ----
(***************************************************************************)
(* Model of misc/history/run-all-checks.py: the commit-history linter.     *)
(*                                                                         *)
(* The script reads a snapshot of the repository through git (the commit   *)
(* list and the branch heads), and runs four checks in the order in which  *)
(* main() finds them.  The model keeps the parsed commit list, the         *)
(* accumulating rule_violations dictionary, the loop position inside       *)
(* check_branch_parent_consistency, the printed report and main's results. *)
(*                                                                         *)
(* Strings are modelled as tuples of one-character strings so that the     *)
(* regular expressions are evaluated on the text of the commit messages.   *)
(* Python's None is the empty tuple (no branch name is empty).             *)
(*                                                                         *)
(* The script runs under `python3` without -O, so assert statements are    *)
(* executed; an exception that no one catches ends the process with        *)
(* status 1.                                                               *)
(***************************************************************************)
EXTENDS Integers, Sequences, FiniteSets, TLC

(* Bounds of the model *)

\* number of commits in the repository snapshot
MaxCommits == 3
\* longest parent list of a commit (octopus merges have more than two)
MaxParents == 3

(* Text *)

None == <<>>

MAIN == <<"m","a","i","n">>

Digits == {"0","1","2","3","4","5","6","7","8","9"}

LEGACY_BRANCH_NAMES ==
  { <<"i","s","s","u","e","3","2","9","t","e","s","t">>,
    <<"i","j","c","a","i","-","2","0","1","1">>,
    <<"h","c","e","a","-","c","l","e","a","n","u","p">>,
    <<"r","a","z","-","i","p","c","-","i","n","t","e","g","r","a","t","i","o","n">>,
    <<"e","m","i","l","-","n","e","w","-","i","n","t","e","g","r","a","t","i","o","n">> }

\* the whole of s is issue\d+
IsIssueNumber(s) ==
  /\ Len(s) >= 6
  /\ SubSeq(s, 1, 5) = <<"i","s","s","u","e">>
  /\ \A k \in 6..Len(s) : s[k] \in Digits

\* the whole of s is release-\d\d\.\d\d
IsRelease(s) ==
  /\ Len(s) = 13
  /\ SubSeq(s, 1, 8) = <<"r","e","l","e","a","s","e","-">>
  /\ s[9] \in Digits /\ s[10] \in Digits
  /\ s[11] = "."
  /\ s[12] \in Digits /\ s[13] \in Digits

\* REGEX_ISSUE_BRANCH.match(s) is not None, for a string s: re.match anchors
\* the pattern at the start of s only, so a matching prefix is enough
REGEX_ISSUE_BRANCH(s) ==
  \E k \in 1..Len(s) :
    \/ IsIssueNumber(SubSeq(s, 1, k))
    \/ SubSeq(s, 1, k) \in LEGACY_BRANCH_NAMES

\* group(1) of REGEX_COMMIT_MESSAGE_BRANCH.match(message), None if no match.
\* No alternative of the group contains "]", so the group ends at the first
\* "]" of the message; ".*" then takes the rest of the subject line.
REGEX_COMMIT_MESSAGE_BRANCH(message) ==
  IF /\ Len(message) >= 2
     /\ message[1] = "["
     /\ \E k \in 2..Len(message) : message[k] = "]"
  THEN LET k == CHOOSE j \in 2..Len(message) :
                  /\ message[j] = "]"
                  /\ \A l \in 2..(j-1) : message[l] # "]"
           g == SubSeq(message, 2, k - 1)
       IN  IF \/ g = MAIN
              \/ IsIssueNumber(g)
              \/ g \in LEGACY_BRANCH_NAMES
              \/ IsRelease(g)
           THEN g ELSE None
  ELSE None


(* The repository snapshot *)

\* 2020-07-10 23:59:59 +0200 in seconds since the epoch
TIMESTAMP_LEGACY == 1594418399

Timestamps == {TIMESTAMP_LEGACY - 1, TIMESTAMP_LEGACY}

\* subject lines of the commits of the snapshot
Messages ==
  { <<"[","m","a","i","n","]"," ","a">>,
    <<"[","i","s","s","u","e","4","2","]"," ","b">>,
    <<"[","r","e","l","e","a","s","e","-","1","2",".","0","3","]"," ","c">>,
    <<"[","i","s","s","u","e","]"," ","t","y","p","o">> }

\* Commit hashes are 1..n in order of creation; 0 is a hash that no commit of
\* the snapshot has (the parent of a commit at the edge of a partial history).
IsDistinct(s) == \A a, b \in 1..Len(s) : a # b => s[a] # s[b]

\* parent lists a commit with hash h can have: distinct older commits, and
\* for the oldest commit the hash outside the snapshot
ParentLists(h) ==
  LET older == IF h = 1 THEN {0} ELSE 1..(h - 1)
  IN  { p \in UNION { [1..k -> older] : k \in 0..MaxParents } : IsDistinct(p) }

RECURSIVE ParentChoices(_)
ParentChoices(n) ==
  IF n = 0 THEN { <<>> }
  ELSE { Append(ps, p) : ps \in ParentChoices(n - 1), p \in ParentLists(n) }

\* `git log --all` lists the newest commit first
Log(n, ps, ts, ms) ==
  [ j \in 1..n |->
      [ hash      |-> n + 1 - j,
        parents   |-> ps[n + 1 - j],
        timestamp |-> ts[j],
        message   |-> ms[j] ] ]

\* MaxParents root commits and one merge of them all, the newest commit
OctopusShapes ==
  { [ h \in 1..(MaxParents + 1) |->
        IF h <= MaxParents THEN <<>> ELSE [ k \in 1..MaxParents |-> k ] ] }

\* the parent lists of the snapshots: every history of up to MaxCommits
\* commits, and the octopus merges
Shapes ==
  UNION { ParentChoices(n) : n \in 1..MaxCommits } \cup OctopusShapes

\* the author dates of the log: a history from before the cutover, or one
\* from after it
Dates(n) ==
  { [ j \in 1..n |-> t ] : t \in Timestamps }

(* The rules *)

RULE_SINGLE_ROOT == "single_root"
RULE_SINGLE_PARENT == "single_parent_on_main_or_same_branch"
RULE_MERGE_INTO_NEW_BRANCH == "merge_into_new_branch"
RULE_MERGE_FIRST_PARENT_SAME_BRANCH == "merge_first_parent_same_branch"
RULE_MERGE_ISSUE_WITH_ITSELF == "merge_issue_branch_with_itself"
RULE_MERGE_INVALID_BRANCH_INTO_MAIN == "merge_invalid_branch_into_main"
RULE_MERGE_ISSUE_INTO_ISSUE == "merge_issue_into_issue"

ERROR_RULES ==
  << RULE_SINGLE_ROOT, RULE_MERGE_INTO_NEW_BRANCH,
     RULE_MERGE_INVALID_BRANCH_INTO_MAIN, RULE_MERGE_FIRST_PARENT_SAME_BRANCH >>
WARNING_RULES ==
  << RULE_SINGLE_PARENT, RULE_MERGE_ISSUE_WITH_ITSELF, RULE_MERGE_ISSUE_INTO_ISSUE >>

Range(s) == { s[k] : k \in 1..Len(s) }

Rules == Range(ERROR_RULES) \cup Range(WARNING_RULES)

VARIABLES
  commits,          \* the parsed output of `git log --all`, newest first
  hash2message,     \* commit hash -> subject line
  idx,              \* position of the loop over commits
  rule_violations,  \* rule -> the messages recorded, in order
  pc,               \* where the script is
  exception,        \* the exception that ended the check, "" if none
  output,           \* the lines printed
  result,           \* what check_branch_parent_consistency returned
  results,          \* main's list of the checks' results
  exit_status       \* the status the process ended with, -1 while it runs

vars == << commits, hash2message, idx, rule_violations, pc, exception,
           output, result, results, exit_status >>

\* A message of rule_violations: its text is the rule's fixed template filled
\* with the commit's hash, its branch and the branches of its parents.
Violation(commit_hash, commit_branch, parent_branches) ==
  [ hash |-> commit_hash, branch |-> commit_branch, parents |-> parent_branches ]

\* rule_violations[rule].append(message)
AddViolation(rv, rule, message) ==
  [ rv EXCEPT ![rule] = Append(@, message) ]

\* the outcome of a call that either returns the dictionary or raises
Returns(value) == [ raised |-> "", value |-> value ]
Raises(e, value) == [ raised |-> e, value |-> value ]

\* a variant that reports every root commit
check_0_parent_consistency_every_root(commit_hash, commit_branch, rv) ==
  AddViolation(rv, RULE_SINGLE_ROOT,
               Violation(commit_hash, commit_branch, <<>>))

check_0_parent_consistency(commit_hash, commit_branch, rv) ==
  IF commit_branch # MAIN
  THEN AddViolation(rv, RULE_SINGLE_ROOT,
                    Violation(commit_hash, commit_branch, <<>>))
  ELSE rv

\* a variant that accepts a parent on the commit's own branch only
check_1_parent_consistency_same_branch_only(commit_hash, commit_branch, parent_branch, rv) ==
  IF parent_branch # commit_branch
  THEN AddViolation(rv, RULE_SINGLE_PARENT,
                    Violation(commit_hash, commit_branch, << parent_branch >>))
  ELSE rv

\* parent_branch is None for an untagged parent; the message then says
\* "BRANCH UNKNOWN"
check_1_parent_consistency(commit_hash, commit_branch, parent_branch, rv) ==
  IF parent_branch # MAIN /\ parent_branch # commit_branch
  THEN AddViolation(rv, RULE_SINGLE_PARENT,
                    Violation(commit_hash, commit_branch, << parent_branch >>))
  ELSE rv

\* _add_violation: ", ".join(parent_branches) raises TypeError when a parent
\* has no tag, before anything is appended
add_violation(commit_hash, commit_branch, parent_branches, rule, rv) ==
  IF \E k \in 1..Len(parent_branches) : parent_branches[k] = None
  THEN Raises("TypeError", rv)
  ELSE Returns(AddViolation(rv, rule,
                 Violation(commit_hash, commit_branch, parent_branches)))

\* a variant whose first two tests are both applied (`if` for `elif`)
check_2_parent_consistency_cumulative(commit_hash, commit_branch, parent_branches, rv) ==
  LET r1 == IF \A k \in 1..2 : parent_branches[k] # commit_branch
            THEN add_violation(commit_hash, commit_branch, parent_branches,
                               RULE_MERGE_INTO_NEW_BRANCH, rv)
            ELSE Returns(rv)
  IN  IF r1.raised # "" THEN r1
      ELSE IF parent_branches[1] # commit_branch
      THEN add_violation(commit_hash, commit_branch, parent_branches,
                         RULE_MERGE_FIRST_PARENT_SAME_BRANCH, r1.value)
      ELSE r1

check_2_parent_consistency(commit_hash, commit_branch, parent_branches, rv) ==
  LET first_parent  == parent_branches[1]
      second_parent == parent_branches[2]
  IN  IF \A k \in 1..2 : parent_branches[k] # commit_branch
      THEN add_violation(commit_hash, commit_branch, parent_branches,
                         RULE_MERGE_INTO_NEW_BRANCH, rv)
      ELSE IF first_parent # commit_branch
      THEN add_violation(commit_hash, commit_branch, parent_branches,
                         RULE_MERGE_FIRST_PARENT_SAME_BRANCH, rv)
      ELSE IF commit_branch = MAIN
      THEN \* REGEX_ISSUE_BRANCH.match(None) raises TypeError
           IF second_parent = None
           THEN Raises("TypeError", rv)
           ELSE IF ~ REGEX_ISSUE_BRANCH(second_parent)
           THEN add_violation(commit_hash, commit_branch, parent_branches,
                              RULE_MERGE_INVALID_BRANCH_INTO_MAIN, rv)
           ELSE Returns(rv)
      ELSE \* assert False, "TODO: continue"
           Raises("AssertionError", rv)

\* a variant without the assertion: an unknown parent counts as untagged
parent_branches_unchecked(c) ==
  Returns([ k \in 1..Len(c.parents) |->
              IF c.parents[k] \in DOMAIN hash2message
              THEN REGEX_COMMIT_MESSAGE_BRANCH(hash2message[c.parents[k]])
              ELSE None ])

\* the loop that fills parent_branches: `assert parent_hash in hash2message`
\* fails for a parent outside the snapshot; a parent without a tag gives None
parent_branches(c) ==
  IF \E k \in 1..Len(c.parents) : c.parents[k] \notin DOMAIN hash2message
  THEN Raises("AssertionError", <<>>)
  ELSE Returns([ k \in 1..Len(c.parents) |->
                   REGEX_COMMIT_MESSAGE_BRANCH(hash2message[c.parents[k]]) ])

EmptyViolations == [ r \in Rules |-> <<>> ]

\* the state in which check_branch_parent_consistency starts its loop, for a
\* snapshot with the given dates
InitCheck(dates) ==
  /\ \E ps \in Shapes :
       \E ts \in dates[Len(ps)], ms \in [1..Len(ps) -> Messages] :
         commits = Log(Len(ps), ps, ts, ms)
  /\ hash2message = [ h \in { commits[j].hash : j \in 1..Len(commits) } |->
                        (CHOOSE c \in Range(commits) : c.hash = h).message ]
  /\ idx = 1
  /\ rule_violations = EmptyViolations
  /\ exception = ""
  /\ output = <<>>
  /\ result = "none"
  /\ results = <<>>
  /\ exit_status = -1

Init ==
  /\ InitCheck([ n \in 1..(MaxCommits + MaxParents + 1) |-> Dates(n) ])
  /\ pc = "loop"

InLoop == pc = "loop" /\ idx <= Len(commits)

Continue ==
  /\ idx' = idx + 1
  /\ UNCHANGED << commits, hash2message, pc, exception, output, result,
                  results, exit_status >>

Raise(e) ==
  /\ pc' = "raised"
  /\ exception' = e
  /\ UNCHANGED << commits, hash2message, idx, output, result, results,
                  exit_status >>

\* a commit whose message carries no branch: another check reports it
SkipUntagged ==
  /\ InLoop
  /\ REGEX_COMMIT_MESSAGE_BRANCH(commits[idx].message) = None
  /\ Continue
  /\ UNCHANGED rule_violations

\* assert parent_hash in hash2message
MissingParent ==
  /\ InLoop
  /\ REGEX_COMMIT_MESSAGE_BRANCH(commits[idx].message) # None
  /\ parent_branches(commits[idx]).raised # ""
  /\ Raise(parent_branches(commits[idx]).raised)
  /\ UNCHANGED rule_violations

\* the loop body reaches the checks with n parent branches
Tagged(n) ==
  /\ InLoop
  /\ REGEX_COMMIT_MESSAGE_BRANCH(commits[idx].message) # None
  /\ parent_branches(commits[idx]).raised = ""
  /\ Len(parent_branches(commits[idx]).value) = n

Check0Parents ==
  /\ Tagged(0)
  /\ rule_violations' = check_0_parent_consistency(
        commits[idx].hash, REGEX_COMMIT_MESSAGE_BRANCH(commits[idx].message),
        rule_violations)
  /\ Continue

Check1Parent ==
  /\ Tagged(1)
  /\ rule_violations' = check_1_parent_consistency(
        commits[idx].hash, REGEX_COMMIT_MESSAGE_BRANCH(commits[idx].message),
        parent_branches(commits[idx]).value[1], rule_violations)
  /\ Continue

Check2Parents ==
  /\ Tagged(2)
  /\ LET r == check_2_parent_consistency(
                commits[idx].hash,
                REGEX_COMMIT_MESSAGE_BRANCH(commits[idx].message),
                parent_branches(commits[idx]).value, rule_violations)
     IN  /\ rule_violations' = r.value
         /\ IF r.raised = "" THEN Continue ELSE Raise(r.raised)

\* commits with more than 2 parents are already reported as error
SkipManyParents ==
  /\ \E n \in 3..MaxParents : Tagged(n)
  /\ Continue
  /\ UNCHANGED rule_violations

(* The report *)

RECURSIVE Count(_, _)
Count(rv, rules) ==
  IF rules = <<>> THEN 0
  ELSE Len(rv[Head(rules)]) + Count(rv, Tail(rules))

Line(level, rule, subject) ==
  [ level |-> level, rule |-> rule, subject |-> subject ]

RECURSIVE Lines(_, _, _)
Lines(level, rv, rules) ==
  IF rules = <<>> THEN <<>>
  ELSE [ k \in 1..Len(rv[Head(rules)]) |->
           Line(level, Head(rules), rv[Head(rules)][k].hash) ]
       \o Lines(level, rv, Tail(rules))

\* a variant that prints the errors first
ReportLines_errors_first(rv) ==
  (IF Count(rv, ERROR_RULES) > 0
   THEN << Line("Error", "count", Count(rv, ERROR_RULES)) >>
        \o Lines("Error", rv, ERROR_RULES)
   ELSE <<>>)
  \o
  (IF Count(rv, WARNING_RULES) > 0
   THEN << Line("Warning", "count", Count(rv, WARNING_RULES)) >>
        \o Lines("Warning", rv, WARNING_RULES)
   ELSE <<>>)

\* the lines check_branch_parent_consistency prints after its loop
ReportLines(rv) ==
  (IF Count(rv, WARNING_RULES) > 0
   THEN << Line("Warning", "count", Count(rv, WARNING_RULES)) >>
        \o Lines("Warning", rv, WARNING_RULES)
   ELSE <<>>)
  \o
  (IF Count(rv, ERROR_RULES) > 0
   THEN << Line("Error", "count", Count(rv, ERROR_RULES)) >>
        \o Lines("Error", rv, ERROR_RULES)
   ELSE <<>>)

\* a variant in which warnings fail the check too
Report_warnings_fail ==
  /\ pc = "loop"
  /\ idx > Len(commits)
  /\ output' = output \o ReportLines(rule_violations)
  /\ result' = IF Count(rule_violations, ERROR_RULES)
                   + Count(rule_violations, WARNING_RULES) > 0
               THEN "False" ELSE "True"
  /\ pc' = "returned"
  /\ UNCHANGED << commits, hash2message, idx, rule_violations, exception,
                  results, exit_status >>

Report ==
  /\ pc = "loop"
  /\ idx > Len(commits)
  /\ output' = output \o ReportLines(rule_violations)
  /\ result' = IF Count(rule_violations, ERROR_RULES) > 0 THEN "False" ELSE "True"
  /\ pc' = "returned"
  /\ UNCHANGED << commits, hash2message, idx, rule_violations, exception,
                  results, exit_status >>

Next ==
  \/ SkipUntagged
  \/ MissingParent
  \/ Check0Parents
  \/ Check1Parent
  \/ Check2Parents
  \/ SkipManyParents
  \/ Report

Spec == Init /\ [][Next]_vars

(* main() and the three other checks *)

REF_HEADS_PREFIX == <<"r","e","f","s","/","h","e","a","d","s","/">>

\* the branches of the repository, in the order `git show-ref` lists them
HeadNames ==
  << MAIN >>

\* the lines of `git show-ref --heads`: one for every branch that exists, with
\* the commit of the snapshot it points to
ShowRefHeads ==
  LET hashes == { commits[j].hash : j \in 1..Len(commits) }
      Exists(tip) == tip.hash # 0
  IN  { SelectSeq([ k \in 1..Len(HeadNames) |->
                      [ hash |-> tips[k], ref |-> REF_HEADS_PREFIX \o HeadNames[k] ] ],
                  Exists) :
          tips \in [ 1..Len(HeadNames) -> hashes \cup {0} ] }

\* what a check prints when it found bad entries: a head line, then one
\* "Error: " line for each
ErrorLines(check, bad) ==
  IF Len(bad) > 0
  THEN << Line("Info", check, Len(bad)) >>
       \o [ k \in 1..Len(bad) |-> Line("Error", check, bad[k].hash) ]
  ELSE <<>>

\* main prints "Running <name>", runs the check and appends its result
RunCheck(name, bad) ==
  /\ output' = output \o << Line("Running", name, 0) >> \o ErrorLines(name, bad)
  /\ results' = Append(results, Len(bad) = 0)
  /\ UNCHANGED << commits, hash2message, idx, rule_violations, pc, exception,
                  result, exit_status >>

check_at_most_two_parents ==
  LET max_parents == 2
      TooMany(c) == Len(c.parents) >= max_parents + 1
  IN  /\ pc = "main"
      /\ Len(results) = 0
      /\ RunCheck("check_at_most_two_parents", SelectSeq(commits, TooMany))

check_branch_head_consistent ==
  /\ pc = "main"
  /\ Len(results) = 1
  /\ \E branch_heads \in ShowRefHeads :
    LET Inconsistent(branch_head) ==
          LET head_branch == SubSeq(branch_head.ref, Len(REF_HEADS_PREFIX) + 1,
                                    Len(branch_head.ref))
              \* `git log --pretty=%s -n 1 <hash>`
              commit_message ==
                (CHOOSE c \in Range(commits) : c.hash = branch_head.hash).message
              msg_branch  == REGEX_COMMIT_MESSAGE_BRANCH(commit_message)
          IN  msg_branch # None /\ msg_branch # head_branch
    IN  RunCheck("check_branch_head_consistent",
                 SelectSeq(branch_heads, Inconsistent))

check_branch_name_in_commit_messages ==
  LET Invalid(c) == REGEX_COMMIT_MESSAGE_BRANCH(c.message) = None
  IN  /\ pc = "main"
      /\ Len(results) = 2
      /\ RunCheck("check_branch_name_in_commit_messages",
                  SelectSeq(commits, Invalid))

\* main calls check_branch_parent_consistency, the last check in sorted order
CallParentConsistency ==
  /\ pc = "main"
  /\ Len(results) = 3
  /\ output' = output \o << Line("Running", "check_branch_parent_consistency", 0) >>
  /\ pc' = "loop"
  /\ UNCHANGED << commits, hash2message, idx, rule_violations, exception,
                  result, results, exit_status >>

\* the last check returned: main appends its result, prints the summary and
\* leaves with sys.exit(1) if a check returned False
Finish ==
  /\ pc = "returned"
  /\ LET all == Append(results, result = "True")
     IN  /\ results' = all
         /\ IF \A k \in 1..Len(all) : all[k]
            THEN /\ output' = output \o << Line("Summary", "passed", 0) >>
                 /\ exit_status' = 0
            ELSE /\ output' = output \o << Line("Summary", "failed", 0) >>
                 /\ exit_status' = 1
  /\ pc' = "exit"
  /\ UNCHANGED << commits, hash2message, idx, rule_violations, exception, result >>

\* an exception nobody catches ends the interpreter with status 1
Uncaught ==
  /\ pc = "raised"
  /\ exit_status' = 1
  /\ pc' = "exit"
  /\ UNCHANGED << commits, hash2message, idx, rule_violations, exception,
                  output, result, results >>

\* main never looks at the dates: its snapshots are all of after the cutover
RecentDates(n) == { [ j \in 1..n |-> TIMESTAMP_LEGACY ] }

InitMain ==
  /\ InitCheck([ n \in 1..(MaxCommits + MaxParents + 1) |-> RecentDates(n) ])
  /\ pc = "main"

NextMain ==
  \/ check_at_most_two_parents
  \/ check_branch_head_consistent
  \/ check_branch_name_in_commit_messages
  \/ CallParentConsistency
  \/ SkipUntagged
  \/ MissingParent
  \/ Check0Parents
  \/ Check1Parent
  \/ Check2Parents
  \/ SkipManyParents
  \/ Report
  \/ Finish
  \/ Uncaught

SpecMain == InitMain /\ [][NextMain]_vars

(* Properties *)

Tag(j) == REGEX_COMMIT_MESSAGE_BRANCH(commits[j].message)

\* the branch of the k-th parent of commit j, for a parent of the snapshot
ParentTag(j, k) == REGEX_COMMIT_MESSAGE_BRANCH(hash2message[commits[j].parents[k]])

NumParents(j) == Len(commits[j].parents)

HasMissingParent(j) ==
  \E k \in 1..NumParents(j) : commits[j].parents[k] \notin DOMAIN hash2message

\* the loop is past commit j
Processed(j) == j < idx

\* the check ended with an exception in the iteration of commit j
RaisedAt(j) == exception # "" /\ idx = j

\* the rules under which a message about the commit with hash h is recorded
RulesOf(h) ==
  { r \in Rules :
      \E k \in 1..Len(rule_violations[r]) : rule_violations[r][k].hash = h }

Total == Count(rule_violations, ERROR_RULES) + Count(rule_violations, WARNING_RULES)

IsLegacy(j) == commits[j].timestamp < TIMESTAMP_LEGACY

\* s is an issue branch: issue<digits> or a legacy name
IssueGrammar(s) == s # None /\ (IsIssueNumber(s) \/ s \in LEGACY_BRANCH_NAMES)

\* C1: a commit with one or two parents and a date before the legacy cutover
\* gets no violation under any rule, whatever the tags are (stated as the
\* claim has it; the loop does not skip such commits).
C1_LegacyExempt ==
  \A j \in 1..Len(commits) :
    (Processed(j) /\ NumParents(j) \in {1, 2} /\ IsLegacy(j))
      => RulesOf(commits[j].hash) = {}

\* C2: for a tagged two-parent commit on a branch other than main whose first
\* parent is on the commit's branch, the check does not fail, and it records
\* merge_issue_branch_with_itself if the second parent is on that branch too,
\* merge_issue_into_issue if the second parent is on neither that branch nor
\* main, and nothing if the second parent is on main (stated as the claim has
\* it; the code stops at `assert False`).
C2_MergeIntoIssueBranch ==
  \A j \in 1..Len(commits) :
    ( /\ Processed(j) \/ RaisedAt(j)
      /\ Tag(j) # None /\ Tag(j) # MAIN
      /\ NumParents(j) = 2 /\ ~ HasMissingParent(j)
      /\ ParentTag(j, 1) = Tag(j) )
      => /\ ~ RaisedAt(j)
         /\ RulesOf(commits[j].hash) =
              IF ParentTag(j, 2) = Tag(j) THEN { RULE_MERGE_ISSUE_WITH_ITSELF }
              ELSE IF ParentTag(j, 2) # MAIN THEN { RULE_MERGE_ISSUE_INTO_ISSUE }
              ELSE {}

\* C3: for a two-parent commit on main whose first parent is on main, nothing
\* is recorded if the second parent is on an issue branch, and exactly
\* merge_invalid_branch_into_main otherwise, a second parent without a tag
\* included (stated as the claim has it; the code fails on the missing tag).
C3_MergeIntoMain ==
  \A j \in 1..Len(commits) :
    ( /\ Processed(j) \/ RaisedAt(j)
      /\ Tag(j) = MAIN
      /\ NumParents(j) = 2 /\ ~ HasMissingParent(j)
      /\ ParentTag(j, 1) = MAIN )
      => /\ ~ RaisedAt(j)
         /\ RulesOf(commits[j].hash) =
              IF IssueGrammar(ParentTag(j, 2)) THEN {}
              ELSE { RULE_MERGE_INVALID_BRANCH_INTO_MAIN }

\* C4: for a tagged two-parent commit neither of whose parents is on the
\* commit's branch, exactly merge_into_new_branch is recorded, parents
\* without a tag included (stated as the claim has it; the code fails when it
\* formats the message for an untagged parent).
C4_MergeIntoNewBranch ==
  \A j \in 1..Len(commits) :
    ( /\ Processed(j) \/ RaisedAt(j)
      /\ Tag(j) # None
      /\ NumParents(j) = 2 /\ ~ HasMissingParent(j)
      /\ ParentTag(j, 1) # Tag(j) /\ ParentTag(j, 2) # Tag(j) )
      => /\ ~ RaisedAt(j)
         /\ RulesOf(commits[j].hash) = { RULE_MERGE_INTO_NEW_BRANCH }

\* C5: for a tagged commit with exactly one parent and a date at or after the
\* cutover, single_parent_on_main_or_same_branch is recorded iff the parent's
\* tag is neither main nor the commit's tag (an untagged parent is neither);
\* otherwise nothing is recorded.
C5_SingleParent ==
  \A j \in 1..Len(commits) :
    ( /\ Processed(j)
      /\ Tag(j) # None
      /\ NumParents(j) = 1
      /\ ~ IsLegacy(j) )
      => RulesOf(commits[j].hash) =
           IF ParentTag(j, 1) # MAIN /\ ParentTag(j, 1) # Tag(j)
           THEN { RULE_SINGLE_PARENT } ELSE {}

\* two such commits are past: one with an untagged parent and the warning,
\* one with its parent on main and no message
C5_Witness ==
  \E a, b \in 1..Len(commits) :
    /\ Processed(a) /\ Processed(b)
    /\ Tag(a) # None /\ NumParents(a) = 1 /\ ~ IsLegacy(a)
    /\ ParentTag(a, 1) = None
    /\ RulesOf(commits[a].hash) = { RULE_SINGLE_PARENT }
    /\ Tag(b) \notin {None, MAIN} /\ NumParents(b) = 1 /\ ~ IsLegacy(b)
    /\ ParentTag(b, 1) = MAIN
    /\ RulesOf(commits[b].hash) = {}

\* C6: for a tagged commit without parents, single_root is recorded iff the
\* commit is not on main, whatever its date is.
C6_SingleRoot ==
  \A j \in 1..Len(commits) :
    ( /\ Processed(j)
      /\ Tag(j) # None
      /\ NumParents(j) = 0 )
      => RulesOf(commits[j].hash) =
           IF Tag(j) # MAIN THEN { RULE_SINGLE_ROOT } ELSE {}

\* two roots from before the cutover are past: one off main with the error,
\* one on main without
C6_Witness ==
  \E a, b \in 1..Len(commits) :
    /\ Processed(a) /\ Processed(b)
    /\ NumParents(a) = 0 /\ NumParents(b) = 0
    /\ Tag(a) \notin {None, MAIN} /\ IsLegacy(a)
    /\ RulesOf(commits[a].hash) = { RULE_SINGLE_ROOT }
    /\ Tag(b) = MAIN /\ IsLegacy(b)
    /\ RulesOf(commits[b].hash) = {}

\* C8: the messages of rule_violations are never more than the tagged commits
\* with at most two parents, and no commit has messages under two rules.
C8_AtMostOnePerCommit ==
  /\ Total <= Cardinality({ j \in 1..Len(commits) :
                              Tag(j) # None /\ NumParents(j) <= 2 })
  /\ \A j \in 1..Len(commits) : Cardinality(RulesOf(commits[j].hash)) <= 1

\* the check returned with one message for every commit, among them a merge
\* that meets the conditions of two rules and has a message under the first
C8_Witness ==
  /\ pc = "returned"
  /\ Total >= 2
  /\ Total = Cardinality({ j \in 1..Len(commits) :
                             Tag(j) # None /\ NumParents(j) <= 2 })
  /\ \E j \in 1..Len(commits) :
       /\ NumParents(j) = 2
       /\ ParentTag(j, 1) # Tag(j)
       /\ RulesOf(commits[j].hash) = { RULE_MERGE_INTO_NEW_BRANCH }

\* C9: a tagged commit with a parent outside the snapshot stops the check: the
\* loop never gets past it, the check returns nothing, ends with the failed
\* assertion when it reaches the commit, and no message is recorded for it.
C9_MissingParentAborts ==
  \A j \in 1..Len(commits) :
    (Tag(j) # None /\ HasMissingParent(j))
      => /\ idx <= j
         /\ result = "none"
         /\ RulesOf(commits[j].hash) = {}
         /\ (idx = j /\ pc # "loop")
              => (exception = "AssertionError" /\ pc \in {"raised", "exit"})

\* the check failed at such a commit after it recorded messages of others
C9_Witness ==
  /\ pc = "raised"
  /\ exception = "AssertionError"
  /\ Tag(idx) # None /\ HasMissingParent(idx)
  /\ idx > 1
  /\ Total >= 1

IsViolationLine(l) == l.rule \in Rules

Position(rules, r) == CHOOSE k \in 1..Len(rules) : rules[k] = r

\* lines of one severity follow the order in which `rules` declares the rules
InDeclaredOrder(level, rules) ==
  \A a, b \in 1..Len(output) :
    ( /\ a < b
      /\ output[a].level = level /\ IsViolationLine(output[a])
      /\ output[b].level = level /\ IsViolationLine(output[b]) )
      => Position(rules, output[a].rule) <= Position(rules, output[b].rule)

\* C10 as stated: in the report every line of an ERROR rule comes before any
\* line of a WARNING rule, and the lines of each severity follow the declared
\* order of the rules.
C10_ErrorsFirst ==
  pc = "returned" =>
    /\ \A a, b \in 1..Len(output) :
         ( /\ output[a].level = "Error" /\ IsViolationLine(output[a])
           /\ output[b].level = "Warning" /\ IsViolationLine(output[b]) )
           => a < b
    /\ InDeclaredOrder("Error", ERROR_RULES)
    /\ InDeclaredOrder("Warning", WARNING_RULES)

\* C10 amended: in the report every line of a WARNING rule comes before any
\* line of an ERROR rule, and the lines of each severity follow the declared
\* order of the rules.
C10_WarningsFirst ==
  pc = "returned" =>
    /\ \A a, b \in 1..Len(output) :
         ( /\ output[a].level = "Warning" /\ IsViolationLine(output[a])
           /\ output[b].level = "Error" /\ IsViolationLine(output[b]) )
           => a < b
    /\ InDeclaredOrder("Error", ERROR_RULES)
    /\ InDeclaredOrder("Warning", WARNING_RULES)

\* a report with a warning and with errors of two rules, printed in the order
\* of the rules although the loop met their commits in the other order
C10_Witness ==
  /\ pc = "returned"
  /\ \E w \in 1..Len(output) :
       output[w].level = "Warning" /\ IsViolationLine(output[w])
  /\ \E a, b \in 1..Len(output) :
       /\ a < b
       /\ output[a].level = "Error" /\ IsViolationLine(output[a])
       /\ output[b].level = "Error" /\ IsViolationLine(output[b])
       /\ output[a].rule # output[b].rule
       /\ output[a].subject < output[b].subject

ErrorReported == \E k \in 1..Len(output) : output[k].level = "Error"

AuxiliaryChecksPass == Len(results) >= 3 /\ \A k \in 1..3 : results[k]

====
